---- MODULE Spec2Model ----
(***************************************************************************)
(* The inter-partition synchronisation barrier of the SST core             *)
(* (Sync::Sync, Sync::registerLink, Sync::execute) together with the       *)
(* parts of the scheduling core it drives: the per-partition TimeVortex,   *)
(* the SyncQueues, the links and the message-passing transport.            *)
(*                                                                         *)
(* Every partition (rank) owns a clock, a TimeVortex, a comm_map           *)
(* (peer rank -> (SyncQueue, receive buffer)) and a link_map               *)
(* (link id -> Link).  Sync::execute blocks in wait_all, so it is split    *)
(* at the places where other partitions can observe it or where the loop   *)
(* over comm_map advances: post, wait, clear, push, re-insert.             *)
(***************************************************************************)
EXTENDS Integers, Sequences, FiniteSets, TLC

\* ------------------------------------------------------------------ bounds

\* Barriers a partition executes before the run is cut off.
MaxBarriers == 2

\* Events the components send over cross-partition links in one run.
MaxSends == 2

\* The simulation cycle at which every partition constructs its Sync.
StartCycle == 0

\* ------------------------------------------------------- program constants

\* SimTime_t is an unsigned 64-bit integer; the arithmetic on it is modular.
\* The modulus is scaled to what the model checker's integers hold.
SimTimeMod == 1073741824

\* setPriority(25) in Sync::Sync.
SyncPriority == 25

\* Priority of an Event (Activity priorities: lower value = higher priority).
EventPriority == 50

\* ----------------------------------------------------------- configuration

Ranks == {0, 1, 2}

\* The registerLink calls of the wire-up: partition `rank` registers its link
\* `id` (minimum latency `lat`) whose other end lives on `peer`.  Link 1 joins
\* ranks 0 and 1, link 2 joins ranks 0 and 2; link 3 is a second link of rank 1
\* towards rank 0 that rank 0 does not register.  A call marked `opt` may be
\* missing from a configuration; the others are always made.
Wiring ==
    { [rank |-> 0, peer |-> 1, id |-> 1, lat |-> 4, opt |-> TRUE],
      [rank |-> 1, peer |-> 0, id |-> 1, lat |-> 4, opt |-> FALSE],
      [rank |-> 0, peer |-> 2, id |-> 2, lat |-> 6, opt |-> FALSE],
      [rank |-> 2, peer |-> 0, id |-> 2, lat |-> 6, opt |-> FALSE],
      [rank |-> 1, peer |-> 0, id |-> 3, lat |-> 4, opt |-> FALSE] }

LinkIds == {w.id : w \in Wiring}

\* The links whose components send events in the runs explored; link 2 stays
\* silent and only makes ranks 0 and 2 peers of each other's barrier.
SendLinks == {1, 3}

\* The Sync periods a configuration may ask for (factor of the TimeConverter).
Periods == {4, 5}

\* The delays components pass to Link::Send.
Delays == {4, 9}

VARIABLES
    phase,      \* "config" (wire-up) or "run"
    period,     \* Sync::period (period->getFactor())
    now,        \* now[p]: Simulation::getCurrentSimCycle() on partition p
    vortex,     \* vortex[p]: the TimeVortex, in dispatch order
    comm_map,   \* comm_map[p]: peer rank -> [first: SyncQueue, second: receive buffer]
    link_map,   \* link_map[p]: link id -> Link
    pc,         \* pc[p]: where partition p is in Sync::execute
    it,         \* it[p]: the comm_map iterator of the dispatch loop (a peer rank, -1 outside)
    chan,       \* chan[s][d]: messages sent by s to d (tag 0) not yet received
    nbar,       \* nbar[p]: barriers partition p has completed
    rtag,       \* rtag[p][r]: the barrier of r in which r sent what p's buffer for r holds
    sent,       \* sent[p]: the events partition p has sent, as the sender stamped them
    pushes,     \* pushes[id]: the Link::Send calls made for event id on a receiver
    disp,       \* disp[id]: where and when event id was dispatched from a TimeVortex
    data,       \* data: the multiset of one ActivityQueue taken alone, in iteration order
    ret,        \* ret: what the last call of the operation under study returned
    hist,       \* hist: the calls made so far on the object under study, oldest first
    initq       \* initq[p][l]: the init data of link l on p: [send: pending, recv: received]

\* The state of the Sync machinery, and the state of the objects studied alone.
syncvars == <<phase, period, now, vortex, comm_map, link_map, pc, it, chan, nbar,
              rtag, sent, pushes, disp>>

auxvars == <<data, ret, hist, initq>>

vars == <<syncvars, auxvars>>

\* The null pointer.
NULL == [kind |-> "null"]

\* ------------------------------------------------------------------ helpers

Max(a, b) == IF a >= b THEN a ELSE b

MinOf(S) == CHOOSE x \in S : \A y \in S : x <= y

Peers(p) == DOMAIN comm_map[p]

\* An event is identified by its sender and its number among the sender's events.
EventIds == Ranks \X (1..MaxSends)

\* The events sent so far, over all partitions.
NumSent == Len(sent[0]) + Len(sent[1]) + Len(sent[2])

\* The Sync action as it sits in the TimeVortex.
SyncActivity(t) ==
    [kind |-> "sync", time |-> t, prio |-> SyncPriority, id |-> <<-1, 0>>, link |-> 0]

EventActivity(e, t) ==
    [kind |-> "event", time |-> t, prio |-> EventPriority, id |-> e.id, link |-> e.link]

\* Activity::less_time_priority: by delivery time, then priority.
LessTimePriority(a, b) ==
    \/ a.time < b.time
    \/ a.time = b.time /\ a.prio < b.prio

\* Faulty variant: the element is put at the lower bound of its key, before
\* the elements equal to it.
RECURSIVE VortexInsertLower(_, _)
VortexInsertLower(v, a) ==
    IF v = <<>> THEN <<a>>
    ELSE IF ~LessTimePriority(Head(v), a) THEN <<a>> \o v
    ELSE <<Head(v)>> \o VortexInsertLower(Tail(v), a)

\* TimeVortex::insert: std::multiset::insert puts the element at the upper
\* bound of its key, that is after every element not greater than it.
RECURSIVE VortexInsert(_, _)
VortexInsert(v, a) ==
    IF v = <<>> THEN <<a>>
    ELSE IF LessTimePriority(a, Head(v)) THEN <<a>> \o v
    ELSE <<Head(v)>> \o VortexInsert(Tail(v), a)

\* ------------------------------------------------------------------- Link

\* Link::Send(delay, event):
\*   delivery_time = max(current_sim_time + latency, current_sim_time + delay),
\* in SimTime_t arithmetic.
SendTime(cur, lat, delay) ==
    Max((cur + lat) % SimTimeMod, (cur + delay) % SimTimeMod)

\* ------------------------------------------------------------------- Sync

\* Faulty variants: the next barrier is scheduled two periods ahead, or one
\* cycle short of a period.
NextFireLate(cur, per) == (cur + per + per) % SimTimeMod

NextFireEarly(cur, per) == (cur + per - 1) % SimTimeMod

\* SimTime_t next = sim->getCurrentSimCycle() + period->getFactor();
NextFire(cur, per) == (cur + per) % SimTimeMod

\* SimTime_t delay = ev->getDeliveryTime() - current_cycle;   (unsigned)
RecvDelay(dt, cur) == (dt - cur) % SimTimeMod

\* link_map.find(ev->getLinkId()) != link_map.end()
LinkFound(lm, id) == id \in DOMAIN lm

\* Faulty variant: the last Link of the map is taken, whatever the id.
LinkOfLast(lm, id) == lm[CHOOSE x \in DOMAIN lm : \A y \in DOMAIN lm : y <= x]

\* link->second: the Link registered under the event's link id.
LinkOf(lm, id) == lm[id]

\* Faulty variant: the event is dropped and the loop goes on.
OnLinkNotFoundIgnored(st) == st

\* printf("Link not found in map!\n"); abort();
OnLinkNotFound(st) == [st EXCEPT !.abort = TRUE]

\* Faulty variant: a SyncQueue and a receive buffer are created at every call.
RegisterCommFresh(cm, rank) ==
    [r \in DOMAIN cm \cup {rank} |->
        IF r = rank THEN [first |-> <<>>, second |-> <<>>] ELSE cm[r]]

\* registerLink, the comm_map part: a SyncQueue and a receive buffer are
\* created for a rank seen for the first time, and reused afterwards.
RegisterComm(cm, rank) ==
    IF rank \notin DOMAIN cm
    THEN [r \in DOMAIN cm \cup {rank} |->
            IF r = rank THEN [first |-> <<>>, second |-> <<>>] ELSE cm[r]]
    ELSE cm

\* registerLink, the link_map part: link_map[link_id] = link.
RegisterLinkMap(lm, id, link) ==
    [l \in DOMAIN lm \cup {id} |-> IF l = id THEN link ELSE lm[l]]

\* Faulty variant: the SyncQueue is left as it is after the exchange.
ClearQueueSkipped(cm, r) == cm

\* i->second.first->clear()
ClearQueue(cm, r) == [cm EXCEPT ![r].first = <<>>]

\* tmp->clear()
ClearBuffer(cm, r) == [cm EXCEPT ![r].second = <<>>]

\* What the isend of one barrier carries: the SyncQueue's vector.
\* (k is the sender's barrier number; the transport does not see it.)
Message(cm, r, k) == [k |-> k, vec |-> cm[r].first]

\* Faulty variant: the receive completes with the newest message of the peer.
MatchedNewest(c) == c[Len(c)]

\* The message an irecv posted for `src` completes with: sends and receives
\* between one pair with one tag match in the order they were posted.
Matched(c) == Head(c)

Unmatched(c) == Tail(c)

\* The comm_map iterator: std::map iterates in ascending rank order.
FirstPeer(cm) == IF DOMAIN cm = {} THEN -1 ELSE MinOf(DOMAIN cm)

\* Faulty variant: the iterator is not advanced.
NextPeerStuck(cm, r) == r

NextPeer(cm, r) ==
    IF {x \in DOMAIN cm : x > r} = {} THEN -1
    ELSE MinOf({x \in DOMAIN cm : x > r})

\* Faulty variant: the receive buffer is walked from its end to its begin.
RECURSIVE PushBufferBackwards(_, _, _, _, _, _)
PushBufferBackwards(p, lm, cur, buf, i, st) ==
    IF i > Len(buf) THEN st
    ELSE LET ev == buf[Len(buf) + 1 - i] IN
         IF ~LinkFound(lm, ev.link)
         THEN [st EXCEPT !.abort = TRUE]
         ELSE LET link  == LinkOf(lm, ev.link)
                  delay == RecvDelay(ev.dt, cur)
                  t     == SendTime(cur, link.lat, delay)
                  rec   == [rank |-> p, link |-> link.id, at |-> cur,
                            delay |-> delay, dt |-> t]
              IN PushBufferBackwards(p, lm, cur, buf, i + 1,
                     [st EXCEPT !.v = VortexInsert(@, EventActivity(ev, t)),
                                !.h[ev.id] = Append(@, rec)])

\* The inner loop of Sync::execute over one receive buffer, from element i:
\* each event is looked up by its link id and re-sent on that link with the
\* remaining delay; an unknown link id aborts the process where it stands.
\* st = [v: the TimeVortex, h: the pushes so far, abort: whether abort() ran]
RECURSIVE PushBuffer(_, _, _, _, _, _)
PushBuffer(p, lm, cur, buf, i, st) ==
    IF i > Len(buf) THEN st
    ELSE LET ev == buf[i] IN
         IF ~LinkFound(lm, ev.link)
         THEN LET st2 == OnLinkNotFound(st) IN
              IF st2.abort THEN st2 ELSE PushBuffer(p, lm, cur, buf, i + 1, st2)
         ELSE LET link  == LinkOf(lm, ev.link)
                  delay == RecvDelay(ev.dt, cur)
                  t     == SendTime(cur, link.lat, delay)
                  rec   == [rank |-> p, link |-> link.id, at |-> cur,
                            delay |-> delay, dt |-> t]
              IN PushBuffer(p, lm, cur, buf, i + 1,
                     [st EXCEPT !.v = VortexInsert(@, EventActivity(ev, t)),
                                !.h[ev.id] = Append(@, rec)])

\* ------------------------------------------------------------------ state

Init ==
    /\ phase = "config"
    /\ period \in Periods
    /\ now = [p \in Ranks |-> StartCycle]
    \* Sync::Sync: the action is inserted at current cycle + period.
    /\ vortex = [p \in Ranks |-> <<SyncActivity(NextFire(StartCycle, period))>>]
    /\ comm_map = [p \in Ranks |-> << >>]
    /\ link_map = [p \in Ranks |-> << >>]
    /\ pc = [p \in Ranks |-> "idle"]
    /\ it = [p \in Ranks |-> -1]
    /\ chan = [s \in Ranks |-> [d \in Ranks |-> <<>>]]
    /\ nbar = [p \in Ranks |-> 0]
    /\ rtag = [p \in Ranks |-> [r \in Ranks |-> 0]]
    /\ sent = [p \in Ranks |-> <<>>]
    /\ pushes = [i \in EventIds |-> <<>>]
    /\ disp = [i \in EventIds |-> <<>>]
    /\ data = <<>>
    /\ ret = NULL
    /\ hist = <<>>
    /\ initq = [p \in Ranks |-> << >>]

\* Sync::registerLink(rank, link_id, link) on partition w.rank.
RegisterLink(w) ==
    /\ phase = "config"
    /\ w.id \notin DOMAIN link_map[w.rank]
    /\ comm_map' = [comm_map EXCEPT ![w.rank] = RegisterComm(@, w.peer)]
    /\ link_map' = [link_map EXCEPT ![w.rank] =
                       RegisterLinkMap(@, w.id, [id |-> w.id, peer |-> w.peer, lat |-> w.lat])]
    /\ UNCHANGED <<phase, period, now, vortex, pc, it, chan, nbar, rtag, sent, pushes, disp>>
    /\ UNCHANGED auxvars

\* The wire-up ends and the run phase begins: no link is created after it.
StartRun ==
    /\ phase = "config"
    /\ \A w \in Wiring : w.opt \/ w.id \in DOMAIN link_map[w.rank]
    /\ phase' = "run"
    /\ UNCHANGED <<period, now, vortex, comm_map, link_map, pc, it, chan, nbar, rtag,
                   sent, pushes, disp>>
    /\ UNCHANGED auxvars

\* A component on partition p sends an event on its cross-partition link l:
\* Link::Send stamps delivery time and link id and appends the event to the
\* SyncQueue registerLink returned for the peer's rank.
UserSend(p, l, d) ==
    /\ phase = "run"
    /\ pc[p] = "idle"
    /\ nbar[p] < MaxBarriers
    /\ l \in DOMAIN link_map[p]
    /\ NumSent < MaxSends
    /\ LET link == link_map[p][l]
           ev   == [id |-> <<p, Len(sent[p]) + 1>>, link |-> link.id,
                    dt |-> SendTime(now[p], link.lat, d)]
       IN /\ comm_map' = [comm_map EXCEPT ![p][link.peer].first = Append(@, ev)]
          /\ sent' = [sent EXCEPT ![p] =
                         Append(@, [id |-> ev.id, src |-> p, dst |-> link.peer,
                                    link |-> ev.link, dt |-> ev.dt, at |-> now[p],
                                    k |-> nbar[p] + 1])]
    /\ UNCHANGED <<phase, period, now, vortex, link_map, pc, it, chan, nbar, rtag,
                   pushes, disp>>
    /\ UNCHANGED auxvars

\* The simulation loop pops an Event: the clock moves to its delivery time
\* and the event is handed to the link's handler.
DispatchEvent(p) ==
    /\ phase = "run"
    /\ pc[p] = "idle"
    /\ vortex[p] # <<>>
    /\ Head(vortex[p]).kind = "event"
    /\ LET a == Head(vortex[p]) IN
          /\ now' = [now EXCEPT ![p] = a.time]
          /\ disp' = [disp EXCEPT ![a.id] = Append(@, [rank |-> p, at |-> a.time])]
    /\ vortex' = [vortex EXCEPT ![p] = Tail(@)]
    /\ UNCHANGED <<phase, period, comm_map, link_map, pc, it, chan, nbar, rtag,
                   sent, pushes>>
    /\ UNCHANGED auxvars

\* The simulation loop pops the Sync action and Sync::execute starts: for
\* every peer in comm_map an isend of the SyncQueue and an irecv are posted.
ExecPost(p) ==
    /\ phase = "run"
    /\ pc[p] = "idle"
    /\ nbar[p] < MaxBarriers
    /\ vortex[p] # <<>>
    /\ Head(vortex[p]).kind = "sync"
    /\ now' = [now EXCEPT ![p] = Head(vortex[p]).time]
    /\ vortex' = [vortex EXCEPT ![p] = Tail(@)]
    /\ chan' = [chan EXCEPT ![p] =
                   [d \in Ranks |->
                       IF d \in Peers(p)
                       THEN Append(chan[p][d], Message(comm_map[p], d, nbar[p] + 1))
                       ELSE chan[p][d]]]
    /\ pc' = [pc EXCEPT ![p] = "wait"]
    /\ UNCHANGED <<phase, period, comm_map, link_map, it, nbar, rtag, sent, pushes, disp>>
    /\ UNCHANGED auxvars

\* boost::mpi::wait_all returns: every irecv has been matched by the peer's
\* send (a send may complete before it is matched: it is buffered).
ExecWait(p) ==
    /\ pc[p] = "wait"
    /\ \A r \in Peers(p) : chan[r][p] # <<>>
    /\ comm_map' = [comm_map EXCEPT ![p] =
                       [r \in Peers(p) |-> [@[r] EXCEPT !.second = Matched(chan[r][p]).vec]]]
    /\ rtag' = [rtag EXCEPT ![p] =
                   [r \in Ranks |-> IF r \in Peers(p) THEN Matched(chan[r][p]).k ELSE @[r]]]
    /\ chan' = [s \in Ranks |->
                   IF s \in Peers(p)
                   THEN [chan[s] EXCEPT ![p] = Unmatched(@)]
                   ELSE chan[s]]
    /\ it' = [it EXCEPT ![p] = FirstPeer(comm_map[p])]
    /\ pc' = [pc EXCEPT ![p] = IF Peers(p) = {} THEN "reinsert" ELSE "clear"]
    /\ UNCHANGED <<phase, period, now, vortex, link_map, nbar, sent, pushes, disp>>
    /\ UNCHANGED auxvars

\* The dispatch loop, first statement of an iteration: the SyncQueue of
\* the peer the iterator stands on is cleared.
ExecClear(p) ==
    /\ pc[p] = "clear"
    /\ comm_map' = [comm_map EXCEPT ![p] = ClearQueue(@, it[p])]
    /\ pc' = [pc EXCEPT ![p] = "push"]
    /\ UNCHANGED <<phase, period, now, vortex, link_map, it, chan, nbar, rtag,
                   sent, pushes, disp>>
    /\ UNCHANGED auxvars

\* The dispatch loop, rest of the iteration: every event received from the
\* peer is pushed onto its link, the buffer is cleared, the iterator moves.
ExecPush(p) ==
    /\ pc[p] = "push"
    /\ LET r   == it[p]
           res == PushBuffer(p, link_map[p], now[p], comm_map[p][r].second, 1,
                             [v |-> vortex[p], h |-> pushes, abort |-> FALSE])
       IN /\ vortex' = [vortex EXCEPT ![p] = res.v]
          /\ pushes' = res.h
          /\ IF res.abort
             THEN /\ pc' = [pc EXCEPT ![p] = "aborted"]
                  /\ UNCHANGED <<comm_map, it>>
             ELSE /\ comm_map' = [comm_map EXCEPT ![p] = ClearBuffer(@, r)]
                  /\ it' = [it EXCEPT ![p] = NextPeer(comm_map[p], r)]
                  /\ pc' = [pc EXCEPT ![p] =
                               IF NextPeer(comm_map[p], r) = -1 THEN "reinsert" ELSE "clear"]
    /\ UNCHANGED <<phase, period, now, link_map, chan, nbar, rtag, sent, disp>>
    /\ UNCHANGED auxvars

\* Sync::execute, last statements: the Sync action is inserted again.
ExecReinsert(p) ==
    /\ pc[p] = "reinsert"
    /\ vortex' = [vortex EXCEPT ![p] =
                     VortexInsert(@, SyncActivity(NextFire(now[p], period)))]
    /\ nbar' = [nbar EXCEPT ![p] = @ + 1]
    /\ pc' = [pc EXCEPT ![p] = "idle"]
    /\ UNCHANGED <<phase, period, now, comm_map, link_map, it, chan, rtag,
                   sent, pushes, disp>>
    /\ UNCHANGED auxvars

Next ==
    \/ \E w \in Wiring : RegisterLink(w)
    \/ StartRun
    \/ \E p \in Ranks, l \in SendLinks, d \in Delays : UserSend(p, l, d)
    \/ \E p \in Ranks : DispatchEvent(p)
    \/ \E p \in Ranks : ExecPost(p)
    \/ \E p \in Ranks : ExecWait(p)
    \/ \E p \in Ranks : ExecClear(p)
    \/ \E p \in Ranks : ExecPush(p)
    \/ \E p \in Ranks : ExecReinsert(p)

Spec == Init /\ [][Next]_vars

\* ------------------------------------------------------- derived notions

InExecute(p) == pc[p] \in {"wait", "clear", "push", "reinsert"}

\* The states of the Sync state machine.
Exchanging(p) == pc[p] = "wait"

Dispatching(p) == pc[p] \in {"clear", "push", "reinsert"}

\* The number of the barrier partition p is executing, or will execute next.
Barrier(p) == nbar[p] + 1

\* Barriers partition p has entered (posted its sends and receives for).
Entered(p) == IF pc[p] = "idle" THEN nbar[p] ELSE nbar[p] + 1

\* The positions of the Sync action in p's TimeVortex.
SyncPending(p) == {i \in 1..Len(vortex[p]) : vortex[p][i].kind = "sync"}

\* The time of p's next barrier: that of the pending Sync action, or the
\* current cycle while the barrier is executing.
NextBarrier(p) ==
    IF SyncPending(p) = {} THEN now[p]
    ELSE vortex[p][CHOOSE i \in SyncPending(p) : TRUE].time

\* In the current execute of p, the clear statement has run for peer r.
Cleared(p, r) ==
    \/ pc[p] = "reinsert"
    \/ pc[p] \in {"push", "aborted"} /\ r <= it[p]
    \/ pc[p] = "clear" /\ r < it[p]

\* In the current execute of p, the buffer received from r has been pushed.
PushedFrom(p, r) ==
    \/ pc[p] = "reinsert"
    \/ pc[p] \in {"clear", "push", "aborted"} /\ r < it[p]

\* Partition p's isend of barrier k to r has been posted.
Posted(p, r, k) ==
    \/ \E i \in 1..Len(chan[p][r]) : chan[p][r][i].k = k
    \/ rtag[r][p] >= k

\* Some received Activity has been pushed onto a link in p's current execute.
PushedInThisExecute(p) ==
    /\ pc[p] \in {"clear", "push", "reinsert", "aborted"}
    /\ \E id \in EventIds : \E i \in 1..Len(pushes[id]) :
          pushes[id][i].rank = p /\ pushes[id][i].at = now[p]

AllSent == UNION {{sent[p][i] : i \in 1..Len(sent[p])} : p \in Ranks}

Occurrences(q, id) == Cardinality({i \in 1..Len(q) : q[i].id = id})

\* The minimum latency over the registered cross-partition links.
Latencies == UNION {{link_map[p][l].lat : l \in DOMAIN link_map[p]} : p \in Ranks}

MinLatency == MinOf(Latencies)

\* ------------------------------------------------------------------ C1

\* C1 as stated: in every Sync::execute no received Activity is pushed onto
\* a link before every local SyncQueue has been cleared.
C1_PushOnlyAfterAllCleared ==
    \A p \in Ranks :
        PushedInThisExecute(p) => \A r \in Peers(p) : Cleared(p, r)

\* C1, amended: in every Sync::execute all sends and receives are posted,
\* then the wait completes, then the peers are visited in ascending rank
\* order and for each peer its SyncQueue is cleared and then the Activities
\* received from it are pushed (so an Activity is pushed only after the
\* SyncQueues of its sender and of all lower ranks have been cleared, while
\* those of higher ranks are still uncleared); the re-insertion of the Sync
\* action is the last step.
C1_ExecuteOrder ==
    \A p \in Ranks :
        /\ pc[p] = "idle" =>
              /\ \A r \in Peers(p) : ~Posted(p, r, Barrier(p))
              /\ \A r \in Peers(p) : comm_map[p][r].second = <<>>
        /\ InExecute(p) => \A r \in Peers(p) : Posted(p, r, Barrier(p))
        /\ Exchanging(p) =>
              \A r \in Peers(p) : rtag[p][r] < Barrier(p) /\ comm_map[p][r].second = <<>>
        /\ Dispatching(p) =>
              \A r \in Peers(p) :
                 /\ rtag[p][r] = Barrier(p)
                 /\ Cleared(p, r) => comm_map[p][r].first = <<>>
                 /\ PushedFrom(p, r) => Cleared(p, r) /\ comm_map[p][r].second = <<>>
                 /\ ~PushedFrom(p, r) =>
                       \A i \in 1..Len(comm_map[p][r].second) :
                           pushes[comm_map[p][r].second[i].id] = <<>>
        /\ pc[p] \in {"clear", "push"} => it[p] \in Peers(p)
        /\ SyncPending(p) # {} => pc[p] = "idle"

\* Rank 0 has pushed what it received from rank 1 and now stands on rank 2.
C1_Witness ==
    /\ pc[0] = "clear"
    /\ it[0] = 2
    /\ PushedInThisExecute(0)

\* ------------------------------------------------------------------ C2

\* The copies of an event that have left the sender: in flight, in the
\* receive buffer of a live receiver, or pushed onto a link.
InFlight(e) ==
    LET c == chan[e.src][e.dst]
    IN Cardinality({ij \in (1..Len(c)) \X (1..MaxSends) :
                       /\ ij[2] <= Len(c[ij[1]].vec)
                       /\ c[ij[1]].vec[ij[2]].id = e.id})

Buffered(e) ==
    IF e.src \in Peers(e.dst) /\ pc[e.dst] # "aborted"
    THEN Occurrences(comm_map[e.dst][e.src].second, e.id)
    ELSE 0

Queued(e) == Occurrences(comm_map[e.src][e.dst].first, e.id)

\* C2: every Event in a SyncQueue for rank r when a barrier fires is
\* transmitted in that barrier only, and in every barrier that completes on
\* r it is pushed exactly once, onto the link registered on r under its
\* link id; no event is lost or duplicated.
C2_ExactlyOnce ==
    \A e \in AllSent :
        /\ Len(pushes[e.id]) <= 1
        /\ \A i \in 1..Len(pushes[e.id]) :
              /\ pushes[e.id][i].rank = e.dst
              /\ pushes[e.id][i].link = e.link
              /\ pushes[e.id][i].at = NextFire(StartCycle, period) + (e.k - 1) * period
        /\ \A i \in 1..Len(chan[e.src][e.dst]) :
              Occurrences(chan[e.src][e.dst][i].vec, e.id) > 0 =>
                  chan[e.src][e.dst][i].k = e.k
        /\ Queued(e) <= 1
        /\ Queued(e) = 1 <=> (nbar[e.src] < e.k /\ ~Cleared(e.src, e.dst))
        /\ LET copies == InFlight(e) + Buffered(e) + Len(pushes[e.id]) IN
              /\ copies <= 1
              /\ (Entered(e.src) >= e.k /\ pc[e.dst] # "aborted") => copies = 1
        /\ (e.src \in Peers(e.dst) /\ nbar[e.dst] >= e.k) => Len(pushes[e.id]) = 1

\* An event sent before the first barrier has been pushed on its receiver,
\* and both ends have completed a second barrier since.
C2_Witness ==
    \E e \in AllSent :
        /\ e.k = 1
        /\ Len(pushes[e.id]) = 1
        /\ nbar[e.src] = 2
        /\ nbar[e.dst] = 2

\* ------------------------------------------------------------------ C3

\* C3: when the Sync period is at most the minimum cross-partition link
\* latency, every Activity held in a SyncQueue has a delivery time not
\* earlier than the next barrier, and the delay Sync::execute computes for a
\* received event is the true, non-negative difference (no wrap-around).
C3_QueuedNotBeforeBarrier ==
    (phase = "run" /\ period <= MinLatency) =>
        /\ \A p \in Ranks : \A r \in Peers(p) :
              /\ \A i \in 1..Len(comm_map[p][r].first) :
                    comm_map[p][r].first[i].dt >= NextBarrier(p)
              /\ \A i \in 1..Len(comm_map[p][r].second) :
                    comm_map[p][r].second[i].dt >= now[p]
        /\ \A e \in AllSent : \A i \in 1..Len(pushes[e.id]) :
              /\ e.dt >= pushes[e.id][i].at
              /\ pushes[e.id][i].delay = e.dt - pushes[e.id][i].at

\* An event whose delivery time is exactly the barrier time has been pushed
\* with delay 0 under a period equal to the minimum latency.
C3_Witness ==
    /\ phase = "run"
    /\ period <= MinLatency
    /\ \E e \in AllSent : \E i \in 1..Len(pushes[e.id]) :
          pushes[e.id][i].delay = 0 /\ e.dt = pushes[e.id][i].at

\* ------------------------------------------------------------------ C4

\* C4 as stated: (with a period within the minimum latency) an event
\* exchanged at a barrier is placed on the receiving partition's link queue
\* with the delivery time the sender assigned, and is dispatched on the
\* receiver at that time.
C4_DeliveryTimeKept ==
    (phase = "run" /\ period <= MinLatency) =>
        \A e \in AllSent :
            /\ \A i \in 1..Len(pushes[e.id]) : pushes[e.id][i].dt = e.dt
            /\ \A i \in 1..Len(disp[e.id]) :
                  disp[e.id][i].rank = e.dst /\ disp[e.id][i].at = e.dt

\* ------------------------------------------------------------------ C5

\* C5: a Sync constructed at cycle t0 with period p fires at exactly the
\* cycles t0 + k*p: while its partition is outside execute exactly one Sync
\* action is pending, at t0 + (k+1)*p after k barriers, and while the
\* partition executes its (k+1)-th barrier the clock stands at that cycle
\* and no Sync action is pending.
C5_FiresEveryPeriod ==
    \A p \in Ranks :
        /\ pc[p] = "idle" =>
              /\ Cardinality(SyncPending(p)) = 1
              /\ NextBarrier(p) = StartCycle + (nbar[p] + 1) * period
        /\ pc[p] # "idle" => SyncPending(p) = {}
        /\ InExecute(p) => now[p] = StartCycle + (nbar[p] + 1) * period

\* Rank 0 is executing its second barrier, one period after the first.
C5_Witness ==
    /\ nbar[0] = 1
    /\ pc[0] = "wait"
    /\ now[0] = StartCycle + 2 * period

\* ------------------------------------------------------------------ C6

\* C6: a received Activity whose link id is not in the partition's link
\* table aborts Sync::execute: that Activity is pushed onto no queue and is
\* never dispatched, the barrier it arrived in never completes on the
\* receiver, and the Sync action is not inserted again.
C6_UnknownLinkAborts ==
    /\ \A p \in Ranks :
          pc[p] = "aborted" =>
              /\ SyncPending(p) = {}
              /\ it[p] \in Peers(p)
              /\ \E i \in 1..Len(comm_map[p][it[p]].second) :
                    ~LinkFound(link_map[p], comm_map[p][it[p]].second[i].link)
    /\ \A e \in AllSent :
          ~LinkFound(link_map[e.dst], e.link) =>
              /\ pushes[e.id] = <<>>
              /\ disp[e.id] = <<>>
              /\ \A q \in Ranks : Occurrences(vortex[q], e.id) = 0
              /\ e.src \in Peers(e.dst) =>
                    /\ nbar[e.dst] < e.k
                    /\ Barrier(e.dst) = e.k => ~PushedFrom(e.dst, e.src)
                    /\ (Barrier(e.dst) = e.k /\ pc[e.dst] = "reinsert") => FALSE

\* Rank 0 has aborted on an event of link 3, which it never registered.
C6_Witness ==
    /\ pc[0] = "aborted"
    /\ \E e \in AllSent :
          /\ e.dst = 0
          /\ e.link = 3
          /\ Occurrences(comm_map[0][1].second, e.id) = 1
          /\ pushes[e.id] = <<>>

\* ------------------------------------------------------------------ C7

\* C7 as stated: an event that arrives at a barrier with a delivery time
\* earlier than the receiver's current cycle is never accepted onto a local
\* delivery queue.
C7_PastEventNotAccepted ==
    \A e \in AllSent : \A i \in 1..Len(pushes[e.id]) :
        e.dt >= pushes[e.id][i].at

\* ------------------------------------------------------------------ C8

\* C8 as stated: with a period above the minimum cross-partition link
\* latency the run never starts with a Sync action scheduled, and no barrier
\* is executed.
C8_LongPeriodRejected ==
    (phase = "run" /\ period > MinLatency) =>
        \A p \in Ranks : SyncPending(p) = {} /\ Entered(p) = 0

\* ------------------------------------------------------------------ C9

\* The ids of the events r sent to p that r's k-th barrier transmits.
SentIn(r, p, k) ==
    LET sel == SelectSeq(sent[r], LAMBDA x : x.dst = p /\ x.k = k)
    IN [i \in 1..Len(sel) |-> sel[i].id]

IdsOf(buf) == [i \in 1..Len(buf) |-> buf[i].id]

C9_Inv ==
    \A p \in Ranks : \A r \in Peers(p) :
        Dispatching(p) =>
            /\ Entered(r) >= Barrier(p)
            /\ rtag[p][r] = Barrier(p)
            /\ ~PushedFrom(p, r) =>
                  IdsOf(comm_map[p][r].second) = SentIn(r, p, Barrier(p))

C9_Step ==
    \A p \in Ranks :
        pc'[p] # pc[p] =>
            <<pc[p], pc'[p]>> \in
                { <<"idle", "wait">>, <<"wait", "clear">>, <<"wait", "reinsert">>,
                  <<"clear", "push">>, <<"push", "clear">>, <<"push", "reinsert">>,
                  <<"push", "aborted">>, <<"reinsert", "idle">> }

\* C9: each partition's Sync cycles Idle -> Exchanging -> Dispatching ->
\* Idle; no partition is Dispatching in its k-th barrier before every peer
\* it exchanges with has entered its own k-th barrier, and the buffer it
\* dispatches for a peer is what that peer sent in the peer's k-th barrier.
C9_Lockstep == []C9_Inv /\ [][C9_Step]_vars

\* Rank 0 is about to push, in its second barrier, an event rank 1 sent
\* between the two barriers.
C9_Witness ==
    /\ pc[0] = "push"
    /\ it[0] = 1
    /\ Barrier(0) = 2
    /\ comm_map[0][1].second # <<>>

\* ------------------------------------------------------------------ C10

\* What partition p can do next.
PartitionStep(p) ==
    \/ \E l \in SendLinks, d \in Delays : UserSend(p, l, d)
    \/ DispatchEvent(p)
    \/ ExecPost(p)
    \/ ExecWait(p)
    \/ ExecClear(p)
    \/ ExecPush(p)
    \/ ExecReinsert(p)

\* Partition p waits for a peer that has no SyncQueue towards p, and so
\* never posts the matching send.
Desynchronised(p) ==
    /\ phase = "run"
    /\ pc[p] = "wait"
    /\ \E r \in Peers(p) : p \notin Peers(r)

\* C10 as stated: a partition whose peer does not post the matching
\* operation is not left blocked in the wait: it goes on, to the abort.
C10_DesyncNotBlocked ==
    \A p \in Ranks : Desynchronised(p) => ENABLED PartitionStep(p)

\* ------------------------------------------- ActivityQueues taken alone

\* Calls made on one queue in one run.
MaxOps == 6

\* The delivery times and the priorities of the Activities inserted.
Times == {1, 2}

Priorities == {2, 5}

\* The n-th Activity handed to insert.
Activity(t, pr, n) == [kind |-> "activity", time |-> t, prio |-> pr, seq |-> n]

\* One call on the queue: the operation, the Activity passed or returned
\* (NULL for none) and what size() says after it.
Call(op, a, d) == [op |-> op, a |-> a, size |-> Len(d)]

Inserts == {i \in 1..Len(hist) : hist[i].op = "insert"}

\* The pops that returned an Activity.
Pops == {i \in 1..Len(hist) : hist[i].op = "pop" /\ hist[i].a # NULL}

\* The Activities in the queue just before call i.
ResidentAt(i) ==
    {hist[j].a : j \in {k \in Inserts : k < i}} \
        {hist[j].a : j \in {k \in Pops : k < i}}

Resident == ResidentAt(Len(hist) + 1)

Elements(d) == {d[i] : i \in 1..Len(d)}

\* The state of the Sync machinery while a queue is studied alone.
QueueInit ==
    /\ Init
    /\ period = MinOf(Periods)

\* ------------------------------------------------------------- TimeVortex

\* TimeVortex::insert(Activity*)
TimeVortexInsert(d, a) == VortexInsert(d, a)

\* TimeVortex::pop(): the first element of the multiset is erased and returned.
TimeVortexPop(d) ==
    IF d = <<>> THEN [ret |-> NULL, data |-> d]
    ELSE [ret |-> Head(d), data |-> Tail(d)]

\* The current simulation time: the delivery time of the Activity dispatched last.
CurrentSimTime ==
    IF Pops = {} THEN 0
    ELSE hist[CHOOSE i \in Pops : \A j \in Pops : j <= i].a.time

\* An Activity is inserted; the TimeVortex never takes one due in the past.
TVInsert(t, pr) ==
    /\ Len(hist) < MaxOps
    /\ t >= CurrentSimTime
    /\ LET a == Activity(t, pr, Cardinality(Inserts) + 1)
           d == TimeVortexInsert(data, a)
       IN /\ data' = d
          /\ hist' = Append(hist, Call("insert", a, d))
    /\ ret' = NULL
    /\ UNCHANGED <<syncvars, initq>>

\* The simulation loop pops the next Activity and dispatches it.
TVPop ==
    /\ Len(hist) < MaxOps
    /\ LET r == TimeVortexPop(data)
       IN /\ data' = r.data
          /\ ret' = r.ret
          /\ hist' = Append(hist, Call("pop", r.ret, r.data))
    /\ UNCHANGED <<syncvars, initq>>

TVNext ==
    \/ \E t \in Times, pr \in Priorities : TVInsert(t, pr)
    \/ TVPop

SpecTV == QueueInit /\ [][TVNext]_vars

\* ------------------------------------------------------------------ C11

\* (delivery_time, priority, sequence) of a is lexicographically less than b's.
KeyLess(a, b) ==
    \/ a.time < b.time
    \/ a.time = b.time /\ a.prio < b.prio
    \/ a.time = b.time /\ a.prio = b.prio /\ a.seq < b.seq

\* C11 as stated: of any two activities enqueued at any point, the one
\* whose (delivery_time, priority, sequence) is lexicographically less is
\* dispatched first.
C11_KeyOrderAlways ==
    \A i \in Pops : \A j \in Pops :
        KeyLess(hist[i].a, hist[j].a) => i < j

\* C11, amended: of any two activities that are in the TimeVortex at the
\* same moment, the one whose (delivery_time, priority, sequence) is
\* lexicographically less is dispatched first (every pop returns the least
\* of the activities in the queue); two activities with equal delivery time
\* and equal priority are always dispatched in insertion order.  An activity
\* inserted after another one has been dispatched comes after it whatever
\* its key (it may have the same delivery time and a smaller priority value).
C11_KeyOrderAmongResident ==
    /\ \A j \in Pops : \A a \in ResidentAt(j) :
          a # hist[j].a => KeyLess(hist[j].a, a)
    /\ \A i \in Pops : \A j \in Pops :
          (/\ hist[i].a.time = hist[j].a.time
           /\ hist[i].a.prio = hist[j].a.prio
           /\ hist[i].a.seq < hist[j].a.seq) => i < j
    /\ Elements(data) = Resident
    /\ \A i \in 1..Len(data) : \A j \in 1..Len(data) :
          i < j => KeyLess(data[i], data[j])

\* Priorities 5, 2, 2 inserted at one delivery time have been dispatched as
\* the first 2, the second 2, then the 5.
C11_Witness ==
    /\ Len(hist) = 6
    /\ \A i \in 1..3 : hist[i].op = "insert" /\ hist[i].a.time = 1
    /\ <<hist[1].a.prio, hist[2].a.prio, hist[3].a.prio>> = <<5, 2, 2>>
    /\ <<hist[4].a, hist[5].a, hist[6].a>> = <<hist[2].a, hist[3].a, hist[1].a>>
    /\ \A i \in 4..6 : hist[i].op = "pop"

\* ------------------------------------------------------ PollingLinkQueue

\* Activity::less_time: by delivery time alone.
LessTime(a, b) == a.time < b.time

\* Faulty variant: the element is put before the elements of its delivery time.
RECURSIVE PollingLinkQueueInsertLower(_, _)
PollingLinkQueueInsertLower(d, a) ==
    IF d = <<>> THEN <<a>>
    ELSE IF ~LessTime(Head(d), a) THEN <<a>> \o d
    ELSE <<Head(d)>> \o PollingLinkQueueInsertLower(Tail(d), a)

\* PollingLinkQueue::insert: data.insert(activity).  std::multiset::insert
\* puts the element at the upper bound of its key.
RECURSIVE PollingLinkQueueInsert(_, _)
PollingLinkQueueInsert(d, a) ==
    IF d = <<>> THEN <<a>>
    ELSE IF LessTime(a, Head(d)) THEN <<a>> \o d
    ELSE <<Head(d)>> \o PollingLinkQueueInsert(Tail(d), a)

\* PollingLinkQueue::size: data.size()
PollingLinkQueueSize(d) == Len(d)

\* Faulty variant: the last element of the multiset is erased and returned.
PollingLinkQueuePopBack(d) ==
    IF PollingLinkQueueSize(d) = 0 THEN [ret |-> NULL, data |-> d]
    ELSE [ret |-> d[Len(d)], data |-> SubSeq(d, 1, Len(d) - 1)]

\* PollingLinkQueue::pop: NULL on an empty queue, else *data.begin() is
\* erased and returned.
PollingLinkQueuePop(d) ==
    IF PollingLinkQueueSize(d) = 0 THEN [ret |-> NULL, data |-> d]
    ELSE [ret |-> Head(d), data |-> Tail(d)]

\* Faulty variant: data.begin() is dereferenced without the size test, and
\* on an empty queue yields an Activity that was never inserted.
PollingLinkQueueFrontUnchecked(d) ==
    IF d = <<>> THEN [ret |-> Activity(0, 0, 0), data |-> d]
    ELSE [ret |-> Head(d), data |-> d]

\* PollingLinkQueue::front: NULL on an empty queue, else *data.begin().
PollingLinkQueueFront(d) ==
    IF PollingLinkQueueSize(d) = 0 THEN [ret |-> NULL, data |-> d]
    ELSE [ret |-> Head(d), data |-> d]

PQInsert(t, pr) ==
    /\ Len(hist) < MaxOps
    /\ LET a == Activity(t, pr, Cardinality(Inserts) + 1)
           d == PollingLinkQueueInsert(data, a)
       IN /\ data' = d
          /\ hist' = Append(hist, Call("insert", a, d))
    /\ ret' = NULL
    /\ UNCHANGED <<syncvars, initq>>

PQPop ==
    /\ Len(hist) < MaxOps
    /\ LET r == PollingLinkQueuePop(data)
       IN /\ data' = r.data
          /\ ret' = r.ret
          /\ hist' = Append(hist, Call("pop", r.ret, r.data))
    /\ UNCHANGED <<syncvars, initq>>

PQFront ==
    /\ Len(hist) < MaxOps
    /\ LET r == PollingLinkQueueFront(data)
       IN /\ data' = r.data
          /\ ret' = r.ret
          /\ hist' = Append(hist, Call("front", r.ret, r.data))
    /\ UNCHANGED <<syncvars, initq>>

PQNext ==
    \/ \E t \in Times, pr \in Priorities : PQInsert(t, pr)
    \/ PQPop
    \/ PQFront

SpecPQ == QueueInit /\ [][PQNext]_vars

\* What size() said just before call i.
SizeBefore(i) == IF i = 1 THEN 0 ELSE hist[i - 1].size

\* ------------------------------------------------------------------ C12

\* C12: pop on a non-empty PollingLinkQueue removes and returns an Activity
\* whose delivery time is the minimum of those in the queue; front returns
\* the Activity the next pop would return, removes nothing and leaves
\* size() as it was.
C12_PopMinFrontSame ==
    /\ \A i \in 1..Len(hist) :
          /\ (hist[i].op = "pop" /\ ResidentAt(i) # {}) =>
                /\ hist[i].a \in ResidentAt(i)
                /\ \A b \in ResidentAt(i) : hist[i].a.time <= b.time
                /\ hist[i].size = SizeBefore(i) - 1
          /\ (hist[i].op = "front" /\ ResidentAt(i) # {}) =>
                /\ hist[i].a \in ResidentAt(i)
                /\ hist[i].size = SizeBefore(i)
                /\ ResidentAt(i + 1) = ResidentAt(i)
                /\ (i < Len(hist) /\ hist[i + 1].op = "pop") => hist[i + 1].a = hist[i].a
          /\ hist[i].size = Cardinality(ResidentAt(i + 1))
    /\ Elements(data) = Resident
    /\ PollingLinkQueueSize(data) = Cardinality(Resident)
    /\ (hist # <<>> /\ hist[Len(hist)].op = "front") =>
          ret = PollingLinkQueuePop(data).ret

\* With delivery times 2 and 1 inserted in that order, front and then pop
\* have both returned the Activity inserted second.
C12_Witness ==
    /\ Len(hist) >= 4
    /\ hist[1].op = "insert" /\ hist[1].a.time = 2
    /\ hist[2].op = "insert" /\ hist[2].a.time = 1
    /\ hist[3].op = "front" /\ hist[3].a = hist[2].a /\ hist[3].size = 2
    /\ hist[4].op = "pop" /\ hist[4].a = hist[2].a /\ hist[4].size = 1

\* ------------------------------------------------------------------ C13

\* C13: Activities with the same delivery time are popped from a
\* PollingLinkQueue in the order they were inserted, whatever their
\* priorities and however inserts and pops interleave.
C13_SameTimeFifo ==
    /\ \A j \in Pops : \A a \in ResidentAt(j) :
          a.time = hist[j].a.time => hist[j].a.seq <= a.seq
    /\ \A i \in Pops : \A j \in Pops :
          (hist[i].a.time = hist[j].a.time /\ hist[i].a.seq < hist[j].a.seq) => i < j

\* Priorities 5, 2 inserted at one delivery time, the 5 popped, another 2
\* inserted, then both 2s popped: all in insertion order.
C13_Witness ==
    /\ Len(hist) = 6
    /\ <<hist[1].op, hist[2].op, hist[3].op, hist[4].op, hist[5].op, hist[6].op>>
          = <<"insert", "insert", "pop", "insert", "pop", "pop">>
    /\ \A i \in {1, 2, 4} : hist[i].a.time = 1
    /\ <<hist[1].a.prio, hist[2].a.prio, hist[4].a.prio>> = <<5, 2, 2>>
    /\ <<hist[3].a, hist[5].a, hist[6].a>> = <<hist[1].a, hist[2].a, hist[4].a>>

\* ------------------------------------------------------------------ C14

\* C14: pop and front on an empty PollingLinkQueue return NULL, never fail
\* and leave size() at 0, on a fresh queue and on one that has been emptied.
C14_EmptyReturnsNull ==
    /\ \A i \in 1..Len(hist) :
          (hist[i].op \in {"pop", "front"} /\ SizeBefore(i) = 0) =>
              hist[i].a = NULL /\ hist[i].size = 0
    /\ PollingLinkQueueSize(data) = 0 =>
          /\ PollingLinkQueuePop(data) = [ret |-> NULL, data |-> <<>>]
          /\ PollingLinkQueueFront(data) = [ret |-> NULL, data |-> <<>>]
    /\ Len(hist) < MaxOps => ENABLED PQPop /\ ENABLED PQFront

\* A queue emptied by a pop has answered NULL to a further pop and to front.
C14_Witness ==
    /\ Len(hist) >= 4
    /\ hist[1].op = "insert"
    /\ hist[2].op = "pop" /\ hist[2].a = hist[1].a
    /\ hist[3].op = "pop" /\ hist[3].a = NULL /\ hist[3].size = 0
    /\ hist[4].op = "front" /\ hist[4].a = NULL /\ hist[4].size = 0
    /\ PollingLinkQueueSize(data) = 0

\* ------------------------------------------- Sync::exchangeLinkInitData

\* The payloads components hand to sendInitData.
Payloads == {"a", "b"}

\* A LinkInitData as the sending link stamps it.
LinkInitData(p, n, l, x) == [id |-> <<p, n>>, link |-> l, data |-> x, dt |-> StartCycle]

\* Link::sendInitData called by a component: the item waits on the link
\* until the exchange.
LinkSendInitData(q, l, lid) == [q EXCEPT ![l].send = Append(@, lid)]

\* Link::sendInitData called by Sync on the receiving side: the link stamps
\* its own id on the item and keeps it for the component's recvInitData.
LinkRecvInitData(q, link, lid) ==
    [q EXCEPT ![link.id].recv = Append(@, [lid EXCEPT !.link = link.id])]

\* The first loop: i->second->moveInitDataToRecvQueue() for every link, in
\* link id order; a link's pending init data goes to the SyncQueue of the
\* rank its other end lives on.
RECURSIVE MoveInitData(_, _, _, _)
MoveInitData(lm, q, cm, ids) ==
    IF ids = {} THEN [cm |-> cm, q |-> q]
    ELSE LET l == MinOf(ids) IN
         MoveInitData(lm, [q EXCEPT ![l].send = <<>>],
                      [cm EXCEPT ![lm[l].peer].first = @ \o q[l].send], ids \ {l})

\* Faulty variant: the SyncQueue keeps the init data after the exchange.
InitClearQueueSkipped(cm, r) == cm

\* i->second.first->clear()
InitClearQueue(cm, r) == [cm EXCEPT ![r].first = <<>>]

\* Faulty variant: the item keeps the link id the sender stamped.
SetLinkIdSkipped(lid) == lid

\* lid->setLinkId(-1)
SetLinkId(lid) == [lid EXCEPT !.link = -1]

\* The inner loop over one receive buffer, from element i: each item is
\* looked up by its link id, its link id is reset and it is handed to the
\* link; an unknown link id aborts the process where it stands.
\* st = [q: the links' init data, h: the sendInitData calls made, abort]
RECURSIVE SendInitBuffer(_, _, _, _, _)
SendInitBuffer(p, lm, buf, i, st) ==
    IF i > Len(buf) THEN st
    ELSE LET lid == buf[i] IN
         IF ~LinkFound(lm, lid.link)
         THEN LET st2 == OnLinkNotFound(st) IN
              IF st2.abort THEN st2 ELSE SendInitBuffer(p, lm, buf, i + 1, st2)
         ELSE LET link   == LinkOf(lm, lid.link)
                  handed == SetLinkId(lid)
              IN SendInitBuffer(p, lm, buf, i + 1,
                     [st EXCEPT !.q = LinkRecvInitData(@, link, handed),
                                !.h = Append(@, [rank |-> p, found |-> lid.link,
                                                 to |-> link.id, lid |-> handed])])

\* The wire-up ends and the init phase begins.
StartInit ==
    /\ phase = "config"
    /\ \A w \in Wiring : w.id \in DOMAIN link_map[w.rank]
    /\ phase' = "init"
    /\ initq' = [p \in Ranks |->
                    [l \in DOMAIN link_map[p] |-> [send |-> <<>>, recv |-> <<>>]]]
    /\ UNCHANGED <<period, now, vortex, comm_map, link_map, pc, it, chan, nbar, rtag,
                   sent, pushes, disp, data, ret, hist>>

\* A component on partition p calls sendInitData(x) on its link l.
LinkSendInit(p, l, x) ==
    /\ phase = "init"
    /\ pc[p] = "idle"
    /\ l \in DOMAIN link_map[p]
    /\ NumSent < MaxSends
    /\ LET lid == LinkInitData(p, Len(sent[p]) + 1, l, x) IN
          /\ initq' = [initq EXCEPT ![p] = LinkSendInitData(@, l, lid)]
          /\ sent' = [sent EXCEPT ![p] =
                         Append(@, [id |-> lid.id, src |-> p, dst |-> link_map[p][l].peer,
                                    link |-> l, data |-> x])]
    /\ UNCHANGED <<phase, period, now, vortex, comm_map, link_map, pc, it, chan, nbar,
                   rtag, pushes, disp, data, ret, hist>>

\* exchangeLinkInitData starts: the links' init data are moved to the
\* SyncQueues, and an isend and an irecv are posted for every peer.
InitPost(p) ==
    /\ phase = "init"
    /\ pc[p] = "idle"
    /\ LET m == MoveInitData(link_map[p], initq[p], comm_map[p], DOMAIN link_map[p]) IN
          /\ initq' = [initq EXCEPT ![p] = m.q]
          /\ comm_map' = [comm_map EXCEPT ![p] = m.cm]
          /\ chan' = [chan EXCEPT ![p] =
                         [d \in Ranks |->
                             IF d \in Peers(p)
                             THEN Append(chan[p][d], Message(m.cm, d, 0))
                             ELSE chan[p][d]]]
    /\ pc' = [pc EXCEPT ![p] = "init_wait"]
    /\ UNCHANGED <<phase, period, now, vortex, link_map, it, nbar, rtag, sent, pushes,
                   disp, data, ret, hist>>

\* boost::mpi::wait_all returns.
InitWait(p) ==
    /\ pc[p] = "init_wait"
    /\ \A r \in Peers(p) : chan[r][p] # <<>>
    /\ comm_map' = [comm_map EXCEPT ![p] =
                       [r \in Peers(p) |-> [@[r] EXCEPT !.second = Matched(chan[r][p]).vec]]]
    /\ chan' = [s \in Ranks |->
                   IF s \in Peers(p)
                   THEN [chan[s] EXCEPT ![p] = Unmatched(@)]
                   ELSE chan[s]]
    /\ it' = [it EXCEPT ![p] = FirstPeer(comm_map[p])]
    /\ pc' = [pc EXCEPT ![p] = IF Peers(p) = {} THEN "init_done" ELSE "init_push"]
    /\ UNCHANGED <<phase, period, now, vortex, link_map, nbar, rtag, sent, pushes, disp,
                   data, ret, initq, hist>>

\* One iteration of the last loop: the SyncQueue of the peer is cleared,
\* every item received from it is handed to its link, the buffer is cleared.
InitPush(p) ==
    /\ pc[p] = "init_push"
    /\ LET r   == it[p]
           cm  == InitClearQueue(comm_map[p], r)
           res == SendInitBuffer(p, link_map[p], cm[r].second, 1,
                                 [q |-> initq[p], h |-> hist, abort |-> FALSE])
       IN /\ initq' = [initq EXCEPT ![p] = res.q]
          /\ hist' = res.h
          /\ IF res.abort
             THEN /\ pc' = [pc EXCEPT ![p] = "aborted"]
                  /\ comm_map' = [comm_map EXCEPT ![p] = cm]
                  /\ UNCHANGED it
             ELSE /\ comm_map' = [comm_map EXCEPT ![p] = ClearBuffer(cm, r)]
                  /\ it' = [it EXCEPT ![p] = NextPeer(comm_map[p], r)]
                  /\ pc' = [pc EXCEPT ![p] =
                               IF NextPeer(comm_map[p], r) = -1 THEN "init_done"
                               ELSE "init_push"]
    /\ UNCHANGED <<phase, period, now, vortex, link_map, chan, nbar, rtag, sent, pushes,
                   disp, data, ret>>

\* Every partition has returned from exchangeLinkInitData: the run begins.
EndInit ==
    /\ phase = "init"
    /\ \A p \in Ranks : pc[p] = "init_done"
    /\ phase' = "run"
    /\ pc' = [p \in Ranks |-> "idle"]
    /\ UNCHANGED <<period, now, vortex, comm_map, link_map, it, chan, nbar, rtag, sent,
                   pushes, disp, auxvars>>

\* The wire-up, the init phase and the first barrier of the run.
InitNext ==
    \/ \E w \in Wiring : RegisterLink(w)
    \/ StartInit
    \/ \E p \in Ranks, l \in LinkIds, x \in Payloads : LinkSendInit(p, l, x)
    \/ \E p \in Ranks : InitPost(p)
    \/ \E p \in Ranks : InitWait(p)
    \/ \E p \in Ranks : InitPush(p)
    \/ EndInit
    \/ \E p \in Ranks : nbar[p] = 0 /\ ExecPost(p)
    \/ \E p \in Ranks : ExecWait(p)
    \/ \E p \in Ranks : ExecClear(p)
    \/ \E p \in Ranks : ExecPush(p)
    \/ \E p \in Ranks : ExecReinsert(p)

SpecInit == Init /\ [][InitNext]_vars

\* Partition p has returned from exchangeLinkInitData.
InitDone(p) == pc[p] = "init_done" \/ phase = "run"

\* The sendInitData calls Sync has made for the item `id`.
Handoffs(id) == {i \in 1..Len(hist) : hist[i].lid.id = id}

\* The init items sent to partition p over its link l.
SentOn(p, l) == {e \in AllSent : e.dst = p /\ e.link = l}

\* ------------------------------------------------------------------ C15

\* C15: exchangeLinkInitData hands every received LinkInitData exactly once
\* to the link registered on the receiver under the item's original link
\* id, with the payload unchanged and the link id reset to -1 at the
\* hand-over, so that a link to which the peer sent one item receives
\* exactly that one item; an item whose link id is not registered on the
\* receiver aborts the process.
C15_InitDataDelivered ==
    /\ \A e \in AllSent :
          /\ Cardinality(Handoffs(e.id)) <= 1
          /\ \A i \in Handoffs(e.id) :
                /\ hist[i].rank = e.dst
                /\ hist[i].found = e.link
                /\ hist[i].to = e.link
                /\ hist[i].lid.link = -1
                /\ hist[i].lid.data = e.data
          /\ \A p \in Ranks : \A l \in DOMAIN initq[p] :
                \A i \in 1..Len(initq[p][l].recv) :
                    initq[p][l].recv[i].id = e.id =>
                        /\ p = e.dst
                        /\ l = e.link
                        /\ initq[p][l].recv[i].data = e.data
                        /\ initq[p][l].recv[i].link = l
          /\ InitDone(e.dst) =>
                /\ LinkFound(link_map[e.dst], e.link)
                /\ Cardinality(Handoffs(e.id)) = 1
                /\ Occurrences(initq[e.dst][e.link].recv, e.id) = 1
          /\ ~LinkFound(link_map[e.dst], e.link) =>
                /\ Handoffs(e.id) = {}
                /\ ~InitDone(e.dst)
                /\ pc[e.dst] = "init_push" => it[e.dst] <= e.src
    /\ \A p \in Ranks :
          /\ InitDone(p) =>
                \A l \in DOMAIN initq[p] :
                    Len(initq[p][l].recv) = Cardinality(SentOn(p, l))
          /\ (phase = "init" /\ pc[p] = "aborted") =>
                \E i \in 1..Len(comm_map[p][it[p]].second) :
                    ~LinkFound(link_map[p], comm_map[p][it[p]].second[i].link)

\* Ranks 0 and 1 have each sent one item over link 1, with different
\* payloads, and each holds exactly the other's item on its link 1.
C15_Witness ==
    /\ InitDone(0) /\ InitDone(1)
    /\ Len(sent[0]) = 1 /\ Len(sent[1]) = 1
    /\ sent[0][1].link = 1 /\ sent[1][1].link = 1
    /\ sent[0][1].data # sent[1][1].data
    /\ Len(initq[0][1].recv) = 1 /\ initq[0][1].recv[1].data = sent[1][1].data
    /\ Len(initq[1][1].recv) = 1 /\ initq[1][1].recv[1].data = sent[0][1].data
    /\ \A i \in 1..Len(hist) : hist[i].lid.link = -1

\* ------------------------------------------------------------------ C18

\* C18: exchangeLinkInitData inserts nothing into the TimeVortex and leaves
\* the current cycle and the pending Sync action as they were; when it
\* returns every SyncQueue and every receive buffer of the partition is
\* empty, and the first barrier of the run transmits no init item.
C18_InitExchangeFrame ==
    /\ phase \in {"config", "init"} =>
          \A p \in Ranks :
              /\ vortex[p] = <<SyncActivity(NextFire(StartCycle, period))>>
              /\ now[p] = StartCycle
              /\ nbar[p] = 0
    /\ \A p \in Ranks :
          pc[p] = "init_done" =>
              \A r \in Peers(p) :
                  comm_map[p][r].first = <<>> /\ comm_map[p][r].second = <<>>
    /\ phase = "run" =>
          /\ \A s \in Ranks : \A d \in Ranks : \A i \in 1..Len(chan[s][d]) :
                chan[s][d][i].k >= 1 /\ chan[s][d][i].vec = <<>>
          /\ \A p \in Ranks :
                /\ \A r \in Peers(p) :
                      comm_map[p][r].first = <<>> /\ comm_map[p][r].second = <<>>
                /\ \A i \in 1..Len(vortex[p]) : vortex[p][i].kind = "sync"
          /\ \A id \in EventIds : pushes[id] = <<>>

\* After an init phase in which two items were exchanged, ranks 0 and 1 have
\* completed the first barrier of the run.
C18_Witness ==
    /\ phase = "run"
    /\ Len(hist) >= 2
    /\ nbar[0] = 1
    /\ nbar[1] = 1

\* ------------------------------------------------------------------ C16

\* Runs in which rank 0 receives from both of its peers: the components
\* send over links 1 and 2, with a delay that makes the events of one
\* barrier due at one cycle on the receiver.
DetLinks == {1, 2}

DetDelays == {10}

DetInit ==
    /\ Init
    /\ period = MinOf(Periods)

DetNext ==
    \/ \E w \in Wiring : RegisterLink(w)
    \/ StartRun
    \/ \E p \in Ranks, l \in DetLinks, d \in DetDelays : UserSend(p, l, d)
    \/ \E p \in Ranks : DispatchEvent(p)
    \/ \E p \in Ranks : ExecPost(p)
    \/ \E p \in Ranks : ExecWait(p)
    \/ \E p \in Ranks : ExecClear(p)
    \/ \E p \in Ranks : ExecPush(p)
    \/ \E p \in Ranks : ExecReinsert(p)

SpecDet == DetInit /\ [][DetNext]_vars

\* The event `id` as its sender stamped it.
SentAs(id) == CHOOSE e \in AllSent : e.id = id

\* The fixed order of the pushes: by barrier, then by ascending rank of the
\* sending peer, then by the order in which the sender appended.
PushedBefore(a, b) ==
    \/ a.k < b.k
    \/ a.k = b.k /\ a.src < b.src
    \/ a.k = b.k /\ a.src = b.src /\ a.id[2] < b.id[2]

\* C16: the received Activities are pushed in a fixed order (ascending peer
\* rank, then the sender's append order), so the order in which a partition
\* dispatches the events it received is a function of what was sent and not
\* of the order in which the transport completed: events waiting in a
\* TimeVortex for the same cycle stand in that fixed order.
C16_FixedPushOrder ==
    \A p \in Ranks : \A i \in 1..Len(vortex[p]) : \A j \in 1..Len(vortex[p]) :
        (/\ i < j
         /\ vortex[p][i].kind = "event"
         /\ vortex[p][j].kind = "event") =>
            /\ vortex[p][i].time <= vortex[p][j].time
            /\ vortex[p][i].time = vortex[p][j].time =>
                  PushedBefore(SentAs(vortex[p][i].id), SentAs(vortex[p][j].id))

\* Rank 0 holds an event of rank 1 and an event of rank 2 due at the same
\* cycle, that of rank 1 first.
C16_Witness ==
    /\ Len(vortex[0]) >= 2
    /\ vortex[0][1].kind = "event" /\ vortex[0][1].id[1] = 1
    /\ vortex[0][2].kind = "event" /\ vortex[0][2].id[1] = 2
    /\ vortex[0][1].time = vortex[0][2].time

\* ---------------------------------------------------- Sync::registerLink

\* Calls made on one Sync in one wire-up.
MaxCalls == 4

\* The partition whose Sync is studied, and the ranks and link ids passed
\* to registerLink: the partition's own rank, no rank (-1) and two peers.
MyRank == 0

RegRanks == {-1, 0, 1, 2}

RegLinkIds == {1, 2}

\* The Link object at the local end of link `id` towards `rank`.
LinkObject(id, rank) == [id |-> id, peer |-> rank, lat |-> 4]

\* return queue: a pointer to the SyncQueue comm_map holds for `rank` after
\* lines 48-53 (cm is comm_map as those lines leave it).
RegisterLinkReturn(cm, rank) ==
    IF rank \in DOMAIN cm THEN [kind |-> "SyncQueue", rank |-> rank] ELSE NULL

RegCalls == {i \in 1..Len(hist) : hist[i].op = "registerLink"}

\* Sync::registerLink(rank, link_id, link) on partition MyRank.
RegCall(rank, id) ==
    /\ Len(hist) < MaxCalls
    /\ LET cm == RegisterComm(comm_map[MyRank], rank)
           q  == RegisterLinkReturn(cm, rank)
       IN /\ comm_map' = [comm_map EXCEPT ![MyRank] = cm]
          /\ link_map' = [link_map EXCEPT ![MyRank] =
                             RegisterLinkMap(@, id, LinkObject(id, rank))]
          /\ ret' = q
          /\ hist' = Append(hist, [op |-> "registerLink", rank |-> rank, id |-> id,
                                   link |-> LinkObject(id, rank), ret |-> q])
    /\ UNCHANGED <<phase, period, now, vortex, pc, it, chan, nbar, rtag, sent, pushes,
                   disp, data, initq>>

\* A link puts an event into the SyncQueue an earlier registerLink call
\* returned to it.
RegSend(i) ==
    /\ Len(hist) < MaxCalls
    /\ i \in RegCalls
    /\ hist[i].ret # NULL
    /\ LET r  == hist[i].ret.rank
           ev == [id |-> <<MyRank, Len(hist) + 1>>, link |-> hist[i].id, dt |-> StartCycle]
       IN /\ comm_map' = [comm_map EXCEPT ![MyRank][r].first = Append(@, ev)]
          /\ hist' = Append(hist, [op |-> "send", rank |-> r, id |-> ev.id,
                                   link |-> NULL, ret |-> NULL])
    /\ UNCHANGED <<phase, period, now, vortex, link_map, pc, it, chan, nbar, rtag, sent,
                   pushes, disp, data, ret, initq>>

RegNext ==
    \/ \E rank \in RegRanks, id \in RegLinkIds : RegCall(rank, id)
    \/ \E i \in 1..MaxCalls : RegSend(i)

SpecReg == QueueInit /\ [][RegNext]_vars

\* ------------------------------------------------------------------ C17

\* C17 as stated: registerLink returns the SyncQueue for rank when the peer
\* is remote, and nil when the peer is local (rank is the partition's own
\* rank, or -1).
C17_NilWhenLocal ==
    \A i \in RegCalls :
        IF hist[i].rank \in {MyRank, -1}
        THEN hist[i].ret = NULL
        ELSE hist[i].ret = [kind |-> "SyncQueue", rank |-> hist[i].rank]

\* ------------------------------------------------------------------ C19

\* The events put into the queues registerLink returned for rank r.
PutInto(r) ==
    LET sel == SelectSeq(hist, LAMBDA c : c.op = "send" /\ c.rank = r)
    IN [i \in 1..Len(sel) |-> sel[i].id]

\* The last registerLink call made with link id `id`.
LastCall(id) ==
    CHOOSE i \in RegCalls :
        hist[i].id = id /\ \A j \in RegCalls : hist[j].id = id => j <= i

\* C19: after any sequence of registerLink calls comm_map holds exactly one
\* SyncQueue and one receive buffer for every distinct rank registered;
\* every call with one rank returns the same SyncQueue (what links put into
\* the queue an earlier call returned is in the queue comm_map holds for
\* that rank), calls with different ranks return different SyncQueues, and
\* link_map maps every link id to the link of the latest call made with it.
C19_OneQueuePerRank ==
    /\ DOMAIN comm_map[MyRank] = {hist[i].rank : i \in RegCalls}
    /\ \A r \in DOMAIN comm_map[MyRank] :
          /\ DOMAIN comm_map[MyRank][r] = {"first", "second"}
          /\ IdsOf(comm_map[MyRank][r].first) = PutInto(r)
          /\ comm_map[MyRank][r].second = <<>>
    /\ \A i \in RegCalls : \A j \in RegCalls :
          /\ hist[i].ret # NULL
          /\ hist[i].rank = hist[j].rank <=> hist[i].ret = hist[j].ret
    /\ DOMAIN link_map[MyRank] = {hist[i].id : i \in RegCalls}
    /\ \A id \in DOMAIN link_map[MyRank] :
          link_map[MyRank][id] = hist[LastCall(id)].link

\* Link 1 was registered towards rank 1 and put an event into the queue
\* returned; link 2 was registered towards rank 1 too, and link 1 again,
\* towards rank 2: the event is still in the one queue for rank 1, rank 2
\* has a queue of its own, and link id 1 maps to the link registered last.
C19_Witness ==
    /\ Len(hist) = 4
    /\ hist[1].op = "registerLink" /\ hist[1].rank = 1 /\ hist[1].id = 1
    /\ hist[2].op = "send" /\ hist[2].rank = 1
    /\ hist[3].op = "registerLink" /\ hist[3].rank = 1 /\ hist[3].id = 2
    /\ hist[4].op = "registerLink" /\ hist[4].rank = 2 /\ hist[4].id = 1
    /\ DOMAIN comm_map[MyRank] = {1, 2}
    /\ Len(comm_map[MyRank][1].first) = 1
    /\ link_map[MyRank][1].peer = 2

\* ------------------------------------------------------------------ C20

\* Runs under one period in which every partition keeps running: a
\* partition that can dispatch an event or take a step of Sync::execute
\* eventually does (the simulation loop does not stop, and the transport
\* completes a receive whose matching send has been posted).
LiveDelays == {4}

LiveInit ==
    /\ Init
    /\ period = MinOf(Periods)

\* What partition p does on its own once the run has begun.
Run(p) ==
    \/ DispatchEvent(p)
    \/ ExecPost(p)
    \/ ExecWait(p)
    \/ ExecClear(p)
    \/ ExecPush(p)
    \/ ExecReinsert(p)

LiveNext ==
    \/ \E w \in Wiring : RegisterLink(w)
    \/ StartRun
    \/ \E p \in Ranks, l \in SendLinks, d \in LiveDelays : UserSend(p, l, d)
    \/ \E p \in Ranks : DispatchEvent(p)
    \/ \E p \in Ranks : ExecPost(p)
    \/ \E p \in Ranks : ExecWait(p)
    \/ \E p \in Ranks : ExecClear(p)
    \/ \E p \in Ranks : ExecPush(p)
    \/ \E p \in Ranks : ExecReinsert(p)

SpecLive == LiveInit /\ [][LiveNext]_vars /\ \A p \in Ranks : WF_vars(Run(p))

\* Rank a has a SyncQueue for rank b exactly when b has one for a.
Symmetric == \A a \in Ranks : \A b \in Ranks : a \in Peers(b) <=> b \in Peers(a)

\* Partition p is in the collective wait of a run wired symmetrically.
WaitingSymmetric(p) == phase = "run" /\ Symmetric /\ pc[p] = "wait"

\* Partition p is back in Idle with its next barrier scheduled.
Rescheduled(p) == pc[p] = "idle" /\ SyncPending(p) # {}

SomeAborted == \E q \in Ranks : pc[q] = "aborted"

====
